---- MODULE Spec2Model ----
(***************************************************************************)
(* Model of the Scope plugin (lilyvanoekel/rust_scope).                    *)
(*                                                                         *)
(* MyPlugin (src/src/lib.rs) keeps a fixed array of MAX_BUFFER_SIZE atomic *)
(* samples, a write position, the sample rate and the size of the part of  *)
(* the array in use.  initialize / process / reset are the host callbacks, *)
(* and the editor closure is the per-frame GUI callback that draws the     *)
(* trace and maps a pointer drag to the two parameters.                    *)
(*                                                                         *)
(* Number encodings (all exact):                                           *)
(*   sample rates          integers (Hz), negative ones included           *)
(*   samples               integers in units of 1/2 amplitude              *)
(*   screen lengths        integers in units of 1/2 pixel                  *)
(*   other f32 values      fractions n / d in lowest terms, NaN, +-inf     *)
(***************************************************************************)
EXTENDS Integers, Sequences, FiniteSets

\* ------------------------------------------------------------------ bounds

\* Sample rates offered to initialize are 5 * k for k in -1 .. MaxRateStep,
\* plus 44100, the maximum supported rate and two rates above it.
MaxRateStep == 4

\* Pushes since write_pos was last zeroed are capped (guard of Process).
MaxPushes == 2

\* Frames per process block: 0 .. MaxFrames.
MaxFrames == 2

\* OscilloscopeWidget::new is given a buffer size of 0 .. MaxWidgetSize.
MaxWidgetSize == 3

\* ------------------------------------------------------- program constants

\* lib.rs:16  const MAX_SAMPLE_RATE: f32 = 192_000.0;
MAX_SAMPLE_RATE == 192000

\* `(x * 0.1) as usize`: a float-to-usize cast truncates toward zero and
\* saturates, so a negative product gives 0.
TenthAsUsize(x) == IF x < 0 THEN 0 ELSE x \div 10

\* lib.rs:19  const MAX_BUFFER_SIZE: usize = (MAX_SAMPLE_RATE * 0.1) as usize;
MAX_BUFFER_SIZE == TenthAsUsize(MAX_SAMPLE_RATE)

\* `sample_rate as u32`: truncation toward zero, saturating at 0.
AsU32(x) == IF x < 0 THEN 0 ELSE x

\* --------------------------------------------------------- f32 arithmetic
\* An f32 is [kind, n, d]: kind "fin" with the value n / d in lowest terms
\* (d > 0), or "nan", "pinf", "ninf" (with n = 0, d = 1).

RECURSIVE Gcd(_, _)
Gcd(a, b) == IF b = 0 THEN a ELSE Gcd(b, a % b)

Abs(x) == IF x < 0 THEN -x ELSE x

Fin(n, d) == LET g == Gcd(Abs(n), d)
             IN  [kind |-> "fin", n |-> n \div g, d |-> d \div g]

NaN == [kind |-> "nan", n |-> 0, d |-> 1]
PInf == [kind |-> "pinf", n |-> 0, d |-> 1]
NInf == [kind |-> "ninf", n |-> 0, d |-> 1]

\* a / b for two lengths, b >= 0: x / 0.0 is an infinity, 0.0 / 0.0 is NaN.
FDiv(a, b) ==
    IF b # 0 THEN Fin(a, b)
    ELSE IF a = 0 THEN NaN ELSE IF a > 0 THEN PInf ELSE NInf

\* x * (kn / kd) for a positive constant kn / kd.
FScale(x, kn, kd) == IF x.kind = "fin" THEN Fin(x.n * kn, x.d * kd) ELSE x

FAdd(x, y) ==
    IF x.kind = "nan" \/ y.kind = "nan" THEN NaN
    ELSE IF x.kind = "fin" /\ y.kind = "fin" THEN Fin(x.n * y.d + y.n * x.d, x.d * y.d)
    ELSE IF x.kind = "fin" THEN y
    ELSE IF y.kind = "fin" \/ y.kind = x.kind THEN x
    ELSE NaN

FLess(x, y) == x.n * y.d < y.n * x.d

\* f32::clamp(lo, hi) with finite lo <= hi: NaN stays NaN.
FClamp(x, lo, hi) ==
    IF x.kind = "nan" THEN NaN
    ELSE IF x.kind = "ninf" THEN lo
    ELSE IF x.kind = "pinf" THEN hi
    ELSE IF FLess(x, lo) THEN lo
    ELSE IF FLess(hi, x) THEN hi
    ELSE x

\* `x as usize` of a non-negative f32: truncation; NaN gives 0.
FAsUsize(x) ==
    IF x.kind = "fin" THEN (IF x.n < 0 THEN 0 ELSE x.n \div x.d)
    ELSE 0

Min(a, b) == IF a < b THEN a ELSE b

\* ------------------------------------------------------------------- state

VARIABLES
    buffer,          \* slots stored to so far: [written indices -> sample]
    write_pos,       \* MyPlugin.write_pos
    sample_rate,     \* MyPlugin.sample_rate (u32)
    buffer_size,     \* MyPlugin.buffer_size
    timebase,        \* params.timebase.value(), an f32 (ms)
    vertical_scale,  \* params.vertical_scale.value(), an f32
    drag_start,      \* egui temp memory under ui.id().with("drag_start"):
                     \* << >> (None) or <<[x, y, timebase, scale]>> (Some)
    panicked,        \* "none", or the panic that ended the plugin
    pushed,          \* history: samples pushed since write_pos was zeroed
    last_op,         \* history: the last callback, its inputs and result
    frame,           \* history: what the step just taken computed, when it
                     \* was an editor frame (NoFrame after any other step)
    render,          \* the locals of a render pass in progress, when the
                     \* pass is followed load by load (NoRender otherwise)
    drag_state       \* egui temp memory under ui.id().with("drag_state"):
                     \* << >> or <<[x, y, norm_x, norm_y]>>

vars == <<buffer, write_pos, sample_rate, buffer_size, timebase,
          vertical_scale, drag_start, panicked, pushed, last_op, frame,
          render, drag_state>>

\* The array is created with every slot 0.0 (lib.rs:31); `buffer` records
\* only the slots stored to since, every other slot still reads 0.
BufferAt(buf, i) == IF i \in DOMAIN buf THEN buf[i] ELSE 0

NoFrame == [ran |-> FALSE, drawn |-> FALSE, w |-> 0, h |-> 0,
            display_width |-> 0, samples_to_display |-> 0,
            points |-> << >>, published |-> << >>]

\* No render pass in progress.
NoRender == [pc |-> "idle", current_buffer_size |-> 0, current_write_pos |-> 0,
             current_sample_rate |-> 0, display_width |-> 0,
             samples_to_display |-> 0, i |-> 0, read |-> << >>]

\* lib.rs:29-40 Default for MyPlugin, params.rs:18-45 Default for PluginParams
Init ==
    /\ render = NoRender
    /\ drag_state = << >>
    /\ buffer = << >>
    /\ write_pos = 0
    /\ sample_rate = 44100
    /\ buffer_size = 4410
    /\ timebase = Fin(10, 1)
    /\ vertical_scale = Fin(1, 1)
    /\ drag_start = << >>
    /\ panicked = "none"
    /\ pushed = << >>
    /\ last_op = [op |-> "default"]
    /\ frame = NoFrame

\* -------------------------------------------------------------- initialize

\* Variant of BufferSizeFor that rounds to nearest instead of truncating.
BufferSizeRounded(rate) == IF rate < 0 THEN 0 ELSE (rate + 5) \div 10

\* lib.rs:85  (sample_rate as f32 * 0.1) as usize
BufferSizeFor(rate) == TenthAsUsize(rate)

\* Variant of Initialize that stores the new configuration before it checks
\* the rate.
InitializeStoresFirst(rate) ==
    /\ panicked = "none"
    /\ buffer_size' = BufferSizeFor(rate)
    /\ sample_rate' = AsU32(rate)
    /\ write_pos' = 0
    /\ pushed' = << >>
    /\ last_op' = [op |-> "initialize", rate |-> rate,
                   ret |-> ~(rate > MAX_SAMPLE_RATE)]
    /\ frame' = NoFrame
    /\ UNCHANGED <<render, drag_state>>
    /\ UNCHANGED <<buffer, timebase, vertical_scale, drag_start, panicked>>

\* Variant of Initialize without the maximum-rate check.
InitializeNoReject(rate) ==
    /\ panicked = "none"
    /\ buffer_size' = BufferSizeFor(rate)
    /\ sample_rate' = AsU32(rate)
    /\ write_pos' = 0
    /\ pushed' = << >>
    /\ last_op' = [op |-> "initialize", rate |-> rate, ret |-> TRUE]
    /\ frame' = NoFrame
    /\ UNCHANGED <<render, drag_state>>
    /\ UNCHANGED <<buffer, timebase, vertical_scale, drag_start, panicked>>

\* lib.rs:73-91  MyPlugin::initialize
Initialize(rate) ==
    /\ panicked = "none"
    /\ IF rate > MAX_SAMPLE_RATE
       THEN /\ last_op' = [op |-> "initialize", rate |-> rate, ret |-> FALSE]
            /\ UNCHANGED <<buffer, write_pos, sample_rate, buffer_size, pushed>>
       ELSE /\ buffer_size' = BufferSizeFor(rate)
            /\ sample_rate' = AsU32(rate)
            /\ write_pos' = 0
            /\ pushed' = << >>
            /\ last_op' = [op |-> "initialize", rate |-> rate, ret |-> TRUE]
            /\ UNCHANGED buffer
    /\ frame' = NoFrame
    /\ UNCHANGED <<render, drag_state>>
    /\ UNCHANGED <<timebase, vertical_scale, drag_start, panicked>>

\* ----------------------------------------------------------------- process

RECURSIVE SumSeq(_)
SumSeq(s) == IF s = << >> THEN 0 ELSE Head(s) + SumSeq(Tail(s))

\* lib.rs:101-109: sum * (1.0 / channel_count).  With one or two channels
\* the factor is 1.0 or 0.5, and channel values are even multiples of the
\* half unit, so the product is exact.
MixedSample(channel_samples) == SumSeq(channel_samples) \div Len(channel_samples)

\* Variant of PushSample that advances the write position without wrapping.
PushSampleNoWrap(st, mixed_sample, size) ==
    IF st.panic # "none" THEN st
    ELSE IF st.wp >= MAX_BUFFER_SIZE THEN [st EXCEPT !.panic = "index_out_of_bounds"]
    ELSE [buf |-> [i \in (DOMAIN st.buf) \cup {st.wp} |->
                      IF i = st.wp THEN mixed_sample ELSE st.buf[i]],
          wp |-> st.wp + 1,
          panic |-> "none", done |-> Append(st.done, mixed_sample)]

\* lib.rs:112-115: one pass of the loop body on st = [buf, wp, panic, done].
\* The store indexes the array (panic when out of bounds), then the new
\* write position is computed with `%` (panic when buffer_size is 0).
PushSample(st, mixed_sample, size) ==
    IF st.panic # "none" THEN st
    ELSE IF st.wp >= MAX_BUFFER_SIZE THEN [st EXCEPT !.panic = "index_out_of_bounds"]
    ELSE LET stored == [i \in (DOMAIN st.buf) \cup {st.wp} |->
                           IF i = st.wp THEN mixed_sample ELSE st.buf[i]]
         IN  IF size = 0
             THEN [st EXCEPT !.buf = stored, !.panic = "remainder_by_zero"]
             ELSE [buf |-> stored, wp |-> (st.wp + 1) % size,
                   panic |-> "none", done |-> Append(st.done, mixed_sample)]

RECURSIVE ProcessFrames(_, _, _)
ProcessFrames(st, frames, size) ==
    IF frames = << >> THEN st
    ELSE ProcessFrames(PushSample(st, MixedSample(Head(frames)), size),
                       Tail(frames), size)

\* lib.rs:93-118  MyPlugin::process on a block of frames (each frame holds
\* one sample per channel).
Process(frames) ==
    /\ panicked = "none"
    /\ Len(pushed) + Len(frames) <= MaxPushes
    /\ LET size == buffer_size
           end == ProcessFrames([buf |-> buffer, wp |-> write_pos,
                                 panic |-> "none", done |-> << >>], frames, size)
       IN  /\ buffer' = end.buf
           /\ write_pos' = end.wp
           /\ panicked' = end.panic
           /\ pushed' = pushed \o end.done
           /\ last_op' = [op |-> "process", frames |-> frames]
    /\ frame' = NoFrame
    /\ UNCHANGED <<render, drag_state>>
    /\ UNCHANGED <<sample_rate, buffer_size, timebase, vertical_scale, drag_start>>

\* ------------------------------------------------------------------- reset

\* Variant of Reset that also clears the history buffer.
ResetClearsBuffer ==
    /\ panicked = "none"
    /\ write_pos' = 0
    /\ buffer' = << >>
    /\ pushed' = << >>
    /\ last_op' = [op |-> "reset"]
    /\ frame' = NoFrame
    /\ UNCHANGED <<render, drag_state>>
    /\ UNCHANGED <<sample_rate, buffer_size, timebase, vertical_scale,
                   drag_start, panicked>>

\* lib.rs:120-122  MyPlugin::reset
Reset ==
    /\ panicked = "none"
    /\ write_pos' = 0
    /\ pushed' = << >>
    /\ last_op' = [op |-> "reset"]
    /\ frame' = NoFrame
    /\ UNCHANGED <<render, drag_state>>
    /\ UNCHANGED <<buffer, sample_rate, buffer_size, timebase, vertical_scale,
                   drag_start, panicked>>

\* ------------------------------------------------------------------ editor

\* lib.rs:175  rect.width() as usize, for a width of w half pixels.
DisplayWidth(w) == w \div 2

\* Variant of SamplesToDisplay without the .min(current_buffer_size).
SamplesToDisplayUnclamped(current_sample_rate, timebase_ms, current_buffer_size) ==
    FAsUsize(FScale(timebase_ms, current_sample_rate, 1000))

\* lib.rs:179-181  (current_sample_rate * timebase_ms / 1000.0) as usize,
\* then .min(current_buffer_size).
SamplesToDisplay(current_sample_rate, timebase_ms, current_buffer_size) ==
    Min(FAsUsize(FScale(timebase_ms, current_sample_rate, 1000)),
        current_buffer_size)

\* Variant of BufferIndex that steps one slot per column, whatever
\* samples_to_display is.
BufferIndexByColumn(current_write_pos, i, samples_to_display, display_width, current_buffer_size) ==
    (current_write_pos + i) % current_buffer_size

\* lib.rs:188-190
BufferIndex(current_write_pos, i, samples_to_display, display_width, current_buffer_size) ==
    (current_write_pos + ((i * samples_to_display) \div display_width))
        % current_buffer_size

\* lib.rs:193-194  rect.center().y - sample * rect.height() * 0.4 * scale,
\* for a rect of h half pixels whose top is 0 and a sample of s half units:
\* the product is (s/2) * (h/2) * (2/5) * scale.
PointY(s, h, scale) ==
    FAdd(Fin(h, 4),
         IF scale.kind = "fin" THEN Fin(-(s * h * scale.n), 10 * scale.d)
         ELSE NaN)

\* Variant of Points that indexes the buffer by the column number.
PointsByColumn(buf, current_write_pos, current_buffer_size, samples_to_display, display_width, h, scale) ==
    [k \in 1..display_width |->
        LET i == k - 1
            sample == BufferAt(buf, i)
        IN  [i |-> i, buffer_index |-> i, sample |-> sample,
             x |-> i, y |-> PointY(sample, h, scale)]]

\* lib.rs:185-197  the points of one frame, one per column 0 .. display_width-1
\* (as a sequence, column i at position i + 1).
Points(buf, current_write_pos, current_buffer_size, samples_to_display, display_width, h, scale) ==
    [k \in 1..display_width |->
        LET i == k - 1
            buffer_index == BufferIndex(current_write_pos, i, samples_to_display,
                                        display_width, current_buffer_size)
            sample == BufferAt(buf, buffer_index)
        IN  [i |-> i, buffer_index |-> buffer_index, sample |-> sample,
             x |-> i, y |-> PointY(sample, h, scale)]]

\* Variant of Scope that draws whenever current_buffer_size > 0.
ScopeFromOne(buf, current_write_pos, current_buffer_size, current_sample_rate, timebase_ms, scale, w, h) ==
    IF current_buffer_size > 0
    THEN LET display_width == DisplayWidth(w)
             samples_to_display == SamplesToDisplay(current_sample_rate,
                                       timebase_ms, current_buffer_size)
         IN  [drawn |-> TRUE,
              display_width |-> display_width,
              samples_to_display |-> samples_to_display,
              points |-> Points(buf, current_write_pos, current_buffer_size,
                                samples_to_display, display_width, h, scale)]
    ELSE [drawn |-> FALSE, display_width |-> 0, samples_to_display |-> 0,
          points |-> << >>]

\* lib.rs:170-213  the trace of one frame.  Nothing is computed unless
\* current_buffer_size > 1.
Scope(buf, current_write_pos, current_buffer_size, current_sample_rate, timebase_ms, scale, w, h) ==
    IF current_buffer_size > 1
    THEN LET display_width == DisplayWidth(w)
             samples_to_display == SamplesToDisplay(current_sample_rate,
                                       timebase_ms, current_buffer_size)
         IN  [drawn |-> TRUE,
              display_width |-> display_width,
              samples_to_display |-> samples_to_display,
              points |-> Points(buf, current_write_pos, current_buffer_size,
                                samples_to_display, display_width, h, scale)]
    ELSE [drawn |-> FALSE, display_width |-> 0, samples_to_display |-> 0,
          points |-> << >>]

\* lib.rs:191  buffer[buffer_index] is a checked access into the array of
\* MAX_BUFFER_SIZE slots: the panic of a frame with these points, if any.
FramePanic(points) ==
    IF \E k \in DOMAIN points : points[k].buffer_index >= MAX_BUFFER_SIZE
    THEN "index_out_of_bounds"
    ELSE "none"

\* egui Rect::contains for the rect [0, w] x [0, h] (edges included).
RectContains(w, h, pos) == 0 <= pos.x /\ pos.x <= w /\ 0 <= pos.y /\ pos.y <= h

\* Variant of NewTimebase that adds the vertical movement to the horizontal
\* one.
NewTimebaseDiagonal(start, pointer_pos, w) ==
    LET horizontal_movement == (pointer_pos.x - start.x) + (start.y - pointer_pos.y)
        timebase_delta == FScale(FDiv(horizontal_movement, w), 99 * 2, 1)
    IN  FClamp(FAdd(start.timebase, timebase_delta), Fin(1, 1), Fin(100, 1))

\* lib.rs:241-251  horizontal drag -> timebase
NewTimebase(start, pointer_pos, w) ==
    LET horizontal_movement == pointer_pos.x - start.x
        timebase_delta == FScale(FDiv(horizontal_movement, w), 99 * 2, 1)
    IN  FClamp(FAdd(start.timebase, timebase_delta), Fin(1, 1), Fin(100, 1))

\* Variant of NewScale without the inverted sign: down = more scale.
NewScaleDownward(start, pointer_pos, h) ==
    LET vertical_movement == pointer_pos.y - start.y
        scale_delta == FScale(FDiv(vertical_movement, h), 19, 2)
    IN  FClamp(FAdd(start.scale, scale_delta), Fin(1, 2), Fin(10, 1))

\* lib.rs:242, 255-261  vertical drag -> scale (up = more scale)
NewScale(start, pointer_pos, h) ==
    LET vertical_movement == start.y - pointer_pos.y
        scale_delta == FScale(FDiv(vertical_movement, h), 19, 2)
    IN  FClamp(FAdd(start.scale, scale_delta), Fin(1, 2), Fin(10, 1))

\* The value a FloatParam holds after set_parameter(value): the value is
\* clamped to the range and snapped to the step size (params.rs:30, 41),
\* round(value / step) * step with halves rounded away from zero.
SnapToStep(value, step, lo, hi) ==
    IF value.kind # "fin" THEN value
    ELSE LET num == value.n * step.d
             den == value.d * step.n
             q == IF num >= 0 THEN (2 * num + den) \div (2 * den)
                  ELSE -((2 * (-num) + den) \div (2 * den))
         IN  FClamp(Fin(q * step.n, step.d), lo, hi)

\* History of the pointer, kept in last_op: the primary button is down in
\* this frame and the press that began the current hold happened in a frame
\* whose pointer was inside the draw rect (lib.rs:216-220).
PressedInside(pointer, inside) ==
    /\ pointer.primary_down
    /\ IF pointer.primary_pressed THEN inside
       ELSE last_op.op = "editor" /\ last_op.pressed_inside

\* Variant of Editor whose move branch does not look at primary_down: a frame
\* with the button up maps the pointer like a held one.
EditorIgnoresRelease(w, h, pointer) ==
    /\ panicked = "none"
    /\ LET scope == Scope(buffer, write_pos, buffer_size, sample_rate,
                          timebase, vertical_scale, w, h)
           inside == /\ pointer.hover_pos # << >>
                     /\ RectContains(w, h, pointer.hover_pos[1])
           pos == pointer.hover_pos[1]
           starts == inside /\ pointer.primary_down /\ pointer.primary_pressed
           moves == inside /\ ~pointer.primary_pressed /\ drag_start # << >>
           new_timebase == NewTimebase(drag_start[1], pos, w)
           new_scale == NewScale(drag_start[1], pos, h)
       IN  /\ drag_start' =
                IF starts
                THEN <<[x |-> pos.x, y |-> pos.y, timebase |-> timebase,
                        scale |-> vertical_scale]>>
                ELSE drag_start
           /\ timebase' =
                IF moves THEN SnapToStep(new_timebase, Fin(1, 1), Fin(1, 1), Fin(100, 1))
                ELSE timebase
           /\ vertical_scale' =
                IF moves THEN SnapToStep(new_scale, Fin(1, 10), Fin(1, 2), Fin(10, 1))
                ELSE vertical_scale
           /\ frame' = [ran |-> TRUE, drawn |-> scope.drawn, w |-> w, h |-> h,
                        display_width |-> scope.display_width,
                        samples_to_display |-> scope.samples_to_display,
                        points |-> scope.points,
                        published |-> IF moves THEN <<new_timebase, new_scale>>
                                      ELSE << >>]
           /\ panicked' = FramePanic(scope.points)
           /\ last_op' = [op |-> "editor", pointer |-> pointer,
                          pressed_inside |-> PressedInside(pointer, inside)]
    /\ UNCHANGED <<render, drag_state>>
    /\ UNCHANGED <<buffer, write_pos, sample_rate, buffer_size, pushed>>

\* Variant of Editor whose move branch, when no snapshot is stored, maps the
\* pointer against the rect's origin and the default parameter values.
EditorDefaultSnapshot(w, h, pointer) ==
    /\ panicked = "none"
    /\ LET scope == Scope(buffer, write_pos, buffer_size, sample_rate,
                          timebase, vertical_scale, w, h)
           inside == /\ pointer.hover_pos # << >>
                     /\ RectContains(w, h, pointer.hover_pos[1])
           pos == pointer.hover_pos[1]
           starts == inside /\ pointer.primary_down /\ pointer.primary_pressed
           moves == inside /\ pointer.primary_down /\ ~pointer.primary_pressed
           start == IF drag_start # << >> THEN drag_start[1]
                    ELSE [x |-> 0, y |-> 0, timebase |-> Fin(10, 1),
                          scale |-> Fin(1, 1)]
           new_timebase == NewTimebase(start, pos, w)
           new_scale == NewScale(start, pos, h)
       IN  /\ drag_start' =
                IF starts
                THEN <<[x |-> pos.x, y |-> pos.y, timebase |-> timebase,
                        scale |-> vertical_scale]>>
                ELSE drag_start
           /\ timebase' =
                IF moves THEN SnapToStep(new_timebase, Fin(1, 1), Fin(1, 1), Fin(100, 1))
                ELSE timebase
           /\ vertical_scale' =
                IF moves THEN SnapToStep(new_scale, Fin(1, 10), Fin(1, 2), Fin(10, 1))
                ELSE vertical_scale
           /\ frame' = [ran |-> TRUE, drawn |-> scope.drawn, w |-> w, h |-> h,
                        display_width |-> scope.display_width,
                        samples_to_display |-> scope.samples_to_display,
                        points |-> scope.points,
                        published |-> IF moves THEN <<new_timebase, new_scale>>
                                      ELSE << >>]
           /\ panicked' = FramePanic(scope.points)
           /\ last_op' = [op |-> "editor", pointer |-> pointer,
                          pressed_inside |-> PressedInside(pointer, inside)]
    /\ UNCHANGED <<render, drag_state>>
    /\ UNCHANGED <<buffer, write_pos, sample_rate, buffer_size, pushed>>

\* lib.rs:137-271  one frame of the editor closure, for a draw rect of
\* w x h half pixels and the pointer input of the frame:
\* pointer = [hover_pos (<< >> or <<[x, y]>>), primary_down, primary_pressed].
Editor(w, h, pointer) ==
    /\ panicked = "none"
    /\ LET scope == Scope(buffer, write_pos, buffer_size, sample_rate,
                          timebase, vertical_scale, w, h)
           inside == /\ pointer.hover_pos # << >>
                     /\ RectContains(w, h, pointer.hover_pos[1])
           pos == pointer.hover_pos[1]
           starts == inside /\ pointer.primary_down /\ pointer.primary_pressed
           moves == /\ inside /\ pointer.primary_down /\ ~pointer.primary_pressed
                    /\ drag_start # << >>
           new_timebase == NewTimebase(drag_start[1], pos, w)
           new_scale == NewScale(drag_start[1], pos, h)
       IN  /\ drag_start' =
                IF starts
                THEN <<[x |-> pos.x, y |-> pos.y, timebase |-> timebase,
                        scale |-> vertical_scale]>>
                ELSE drag_start
           /\ timebase' =
                IF moves THEN SnapToStep(new_timebase, Fin(1, 1), Fin(1, 1), Fin(100, 1))
                ELSE timebase
           /\ vertical_scale' =
                IF moves THEN SnapToStep(new_scale, Fin(1, 10), Fin(1, 2), Fin(10, 1))
                ELSE vertical_scale
           /\ frame' = [ran |-> TRUE, drawn |-> scope.drawn, w |-> w, h |-> h,
                        display_width |-> scope.display_width,
                        samples_to_display |-> scope.samples_to_display,
                        points |-> scope.points,
                        published |-> IF moves THEN <<new_timebase, new_scale>>
                                      ELSE << >>]
           /\ panicked' = FramePanic(scope.points)
           /\ last_op' = [op |-> "editor", pointer |-> pointer,
                          pressed_inside |-> PressedInside(pointer, inside)]
    /\ UNCHANGED <<render, drag_state>>
    /\ UNCHANGED <<buffer, write_pos, sample_rate, buffer_size, pushed>>

\* ------------------------------------------------------- host automation

\* params.rs:22-42  both parameters are host parameters: the host may set
\* either to any value of its range at any time.
HostSetParameter(id, value) ==
    /\ panicked = "none"
    /\ timebase' = IF id = "timebase" THEN value ELSE timebase
    /\ vertical_scale' = IF id = "vertical_scale" THEN value ELSE vertical_scale
    /\ last_op' = [op |-> "set_parameter", id |-> id]
    /\ frame' = NoFrame
    /\ UNCHANGED <<render, drag_state>>
    /\ UNCHANGED <<buffer, write_pos, sample_rate, buffer_size, drag_start,
                   panicked, pushed>>

\* ------------------------------------------------------ inputs and Next

Rates ==
    {5 * k : k \in -1..MaxRateStep}
    \cup {44100, MAX_SAMPLE_RATE, MAX_SAMPLE_RATE + 1, MAX_SAMPLE_RATE + 10}

\* Channel samples 0.0 and 1.0 (in half units).
ChannelValues == {0, 2}

\* AUDIO_IO_LAYOUTS (lib.rs:49-62): stereo or mono.
ChannelCounts == {1, 2}

FramesOf(n) == [1..n -> ChannelValues]

Blocks == UNION {[1..f -> FramesOf(n)] : f \in 0..MaxFrames, n \in ChannelCounts}

\* Draw rects (half pixels): zero width, half a pixel, 2 and 3 pixels wide,
\* 2 pixels high.
RectWidths == {0, 1, 4, 6}
RectHeights == {4}

NoPointer == [hover_pos |-> << >>, primary_down |-> FALSE, primary_pressed |-> FALSE]

\* The history buffer and the trace are explored with the pointer away from
\* the window.
Pointers == {NoPointer}

HostValues == {<<"timebase", Fin(70, 1)>>, <<"timebase", Fin(100, 1)>>}

Next ==
    \/ \E rate \in Rates : Initialize(rate)
    \/ \E frames \in Blocks : Process(frames)
    \/ Reset
    \/ \E w \in RectWidths, h \in RectHeights, pointer \in Pointers :
          Editor(w, h, pointer)
    \/ \E pv \in HostValues : HostSetParameter(pv[1], pv[2])

Spec == Init /\ [][Next]_vars

\* ------------------------------------------------- the widget on its own

\* oscilloscope.rs:48-179  OscilloscopeWidget::ui: the same trace and drag
\* mapping as the editor closure, on the values the widget was built with;
\* the new values go to the two callbacks and the widget's fields stay.
WidgetUi(w, h, pointer) ==
    /\ panicked = "none"
    /\ LET scope == Scope(buffer, write_pos, buffer_size, sample_rate,
                          timebase, vertical_scale, w, h)
           inside == /\ pointer.hover_pos # << >>
                     /\ RectContains(w, h, pointer.hover_pos[1])
           pos == pointer.hover_pos[1]
           starts == inside /\ pointer.primary_down /\ pointer.primary_pressed
           moves == /\ inside /\ pointer.primary_down /\ ~pointer.primary_pressed
                    /\ drag_start # << >>
       IN  /\ drag_start' =
                IF starts
                THEN <<[x |-> pos.x, y |-> pos.y, timebase |-> timebase,
                        scale |-> vertical_scale]>>
                ELSE drag_start
           /\ frame' = [ran |-> TRUE, drawn |-> scope.drawn, w |-> w, h |-> h,
                        display_width |-> scope.display_width,
                        samples_to_display |-> scope.samples_to_display,
                        points |-> scope.points,
                        published |->
                            IF moves
                            THEN <<NewTimebase(drag_start[1], pos, w),
                                   NewScale(drag_start[1], pos, h)>>
                            ELSE << >>]
           /\ panicked' = FramePanic(scope.points)
    /\ last_op' = [op |-> "ui", pointer |-> pointer]
    /\ UNCHANGED <<render, drag_state>>
    /\ UNCHANGED <<buffer, write_pos, sample_rate, buffer_size, timebase,
                   vertical_scale, pushed>>

WidgetRates == {0, 20, 100}
WidgetTimebases == {Fin(10, 1), Fin(70, 1), Fin(100, 1), NaN}
WidgetBuffers == {<< >>} \cup [0..1 -> ChannelValues]

\* oscilloscope.rs:17-35  OscilloscopeWidget::new with any sample rate and
\* timebase, a buffer size of 0 .. MaxWidgetSize and a write position inside it.
InitWidget ==
    /\ render = NoRender
    /\ drag_state = << >>
    /\ buffer \in WidgetBuffers
    /\ buffer_size \in 0..MaxWidgetSize
    /\ write_pos \in 0..MaxWidgetSize
    /\ (write_pos < buffer_size \/ write_pos = 0)
    /\ sample_rate \in WidgetRates
    /\ timebase \in WidgetTimebases
    /\ vertical_scale = Fin(1, 1)
    /\ drag_start = << >>
    /\ panicked = "none"
    /\ pushed = << >>
    /\ last_op = [op |-> "new"]
    /\ frame = NoFrame

NextWidget ==
    \E w \in RectWidths, h \in RectHeights, pointer \in Pointers :
        WidgetUi(w, h, pointer)

SpecWidget == InitWidget /\ [][NextWidget]_vars

\* ------------------------------------------------------- drag gestures

\* Draw rects of the drag frames (half pixels): zero or half a pixel wide
\* (no trace column to compute), zero or 2 pixels high.
DragWidths == {0, 1}
DragHeights == {0, 4}

\* lib.rs:215-219  the pointer input of a frame: no hover position, or a
\* position on or beside the rect, with the primary button up, just pressed,
\* or held since an earlier frame.
DragPointers ==
    [hover_pos : {<< >>} \cup {<<[x |-> x, y |-> y]>> : x \in {0, 1, 2}, y \in {0, 4}},
     primary_down : BOOLEAN, primary_pressed : BOOLEAN]

\* egui pointer state: primary_pressed is true in the frame the button goes
\* down, so a button that is down without having been pressed in this frame
\* was down in the frame before.  A press comes with a pointer position; a
\* press released within the same frame (pressed and not down) is left out.
PointerFollows(pointer) ==
    /\ pointer.primary_pressed =>
           (pointer.primary_down /\ pointer.hover_pos # << >>)
    /\ (pointer.primary_down /\ ~pointer.primary_pressed) =>
           /\ last_op.op \in {"editor", "handle_drag_control"}
           /\ last_op.pointer.primary_down

\* The editor of the default plugin, frame after frame, under any sequence
\* of pointer inputs and rect sizes.
NextDrag ==
    \E w \in DragWidths, h \in DragHeights, pointer \in DragPointers :
        PointerFollows(pointer) /\ Editor(w, h, pointer)

SpecDrag == Init /\ [][NextDrag]_vars

\* ------------------------------------------- generic drag controller

\* drag_control.rs:25-30  (start_norm + movement / extent).clamp(0.0, 1.0)
NewNorm(start_norm, movement, extent) ==
    FClamp(FAdd(start_norm, FDiv(movement, extent)), Fin(0, 1), Fin(1, 1))

\* drag_control.rs:6-8  the default initial_drag_position: (0.5, 0.5)
InitialDragPosition == <<Fin(1, 2), Fin(1, 2)>>

\* drag_control.rs:10-37  DragControllable::handle_drag_control in one frame
\* of a widget with the rect [0, w] x [0, h] and the default
\* initial_drag_position; last_op.on_drag holds the arguments of the on_drag
\* call of the frame, << >> when on_drag is not called.
HandleDragControl(w, h, pointer) ==
    /\ panicked = "none"
    /\ LET inside == /\ pointer.hover_pos # << >>
                     /\ RectContains(w, h, pointer.hover_pos[1])
           pointer_pos == pointer.hover_pos[1]
           starts == inside /\ pointer.primary_down /\ pointer.primary_pressed
           moves == /\ inside /\ pointer.primary_down /\ ~pointer.primary_pressed
                    /\ drag_state # << >>
           start == drag_state[1]
       IN  /\ drag_state' =
                IF starts
                THEN <<[x |-> pointer_pos.x, y |-> pointer_pos.y,
                        norm_x |-> InitialDragPosition[1],
                        norm_y |-> InitialDragPosition[2]]>>
                ELSE drag_state
           /\ last_op' =
                [op |-> "handle_drag_control", pointer |-> pointer,
                 w |-> w, h |-> h,
                 on_drag |->
                     IF moves
                     THEN <<NewNorm(start.norm_x, pointer_pos.x - start.x, w),
                            NewNorm(start.norm_y, start.y - pointer_pos.y, h)>>
                     ELSE << >>]
    /\ frame' = NoFrame
    /\ UNCHANGED <<buffer, write_pos, sample_rate, buffer_size, timebase,
                   vertical_scale, drag_start, panicked, pushed, render>>

\* A widget that calls handle_drag_control in every frame, under any sequence
\* of pointer inputs and rect sizes.
NextControl ==
    \E w \in DragWidths, h \in DragHeights, pointer \in DragPointers :
        PointerFollows(pointer) /\ HandleDragControl(w, h, pointer)

SpecControl == Init /\ [][NextControl]_vars

\* ------------------------------------------- render pass, load by load

\* lib.rs:170  let current_buffer_size = buffer_size.load(Relaxed), in a
\* frame whose rect is w half pixels wide (display_width, lib.rs:175).
RenderLoadBufferSize(w) ==
    /\ panicked = "none"
    /\ render.pc = "idle"
    /\ render' = [NoRender EXCEPT !.pc = "write_pos",
                                  !.current_buffer_size = buffer_size,
                                  !.display_width = DisplayWidth(w)]
    /\ last_op' = [op |-> "render"]
    /\ frame' = NoFrame
    /\ UNCHANGED <<buffer, write_pos, sample_rate, buffer_size, timebase,
                   vertical_scale, drag_start, panicked, pushed, drag_state>>

\* lib.rs:171  let current_write_pos = write_pos.load(Relaxed)
RenderLoadWritePos ==
    /\ panicked = "none"
    /\ render.pc = "write_pos"
    /\ render' = [render EXCEPT !.pc = "sample_rate",
                                !.current_write_pos = write_pos]
    /\ last_op' = [op |-> "render"]
    /\ frame' = NoFrame
    /\ UNCHANGED <<buffer, write_pos, sample_rate, buffer_size, timebase,
                   vertical_scale, drag_start, panicked, pushed, drag_state>>

\* lib.rs:172-181  let current_sample_rate = sample_rate.load(Relaxed), the
\* test current_buffer_size > 1 and samples_to_display.
RenderLoadSampleRate ==
    /\ panicked = "none"
    /\ render.pc = "sample_rate"
    /\ render' =
         IF render.current_buffer_size > 1 /\ render.display_width > 0
         THEN [render EXCEPT
                  !.pc = "points",
                  !.current_sample_rate = sample_rate,
                  !.samples_to_display =
                      SamplesToDisplay(sample_rate, timebase,
                                       render.current_buffer_size)]
         ELSE NoRender
    /\ last_op' = [op |-> "render"]
    /\ frame' = NoFrame
    /\ UNCHANGED <<buffer, write_pos, sample_rate, buffer_size, timebase,
                   vertical_scale, drag_start, panicked, pushed, drag_state>>

\* lib.rs:185-191  one column of the map: buffer_index is computed from the
\* values loaded before and buffer[buffer_index] is loaded.  `read` keeps
\* the index and the buffer_size stored in the plugin at that moment.
RenderReadSample ==
    /\ panicked = "none"
    /\ render.pc = "points"
    /\ LET buffer_index == BufferIndex(render.current_write_pos, render.i,
                               render.samples_to_display, render.display_width,
                               render.current_buffer_size)
           read == <<[buffer_index |-> buffer_index,
                      buffer_size |-> buffer_size,
                      sample |-> BufferAt(buffer, buffer_index)]>>
       IN  /\ render' =
                IF render.i + 1 < render.display_width
                THEN [render EXCEPT !.i = render.i + 1, !.read = read]
                ELSE [NoRender EXCEPT !.read = read]
           /\ panicked' = IF buffer_index >= MAX_BUFFER_SIZE
                          THEN "index_out_of_bounds" ELSE "none"
    /\ last_op' = [op |-> "render"]
    /\ frame' = NoFrame
    /\ UNCHANGED <<buffer, write_pos, sample_rate, buffer_size, timebase,
                   vertical_scale, drag_start, pushed, drag_state>>

\* Sample rates of the configure calls that run beside a render pass.
RenderRates == {20, 50, 44100}

\* A block of one mono frame of value 1.0.
RenderBlocks == {<<<<2>>>>}

\* The render pass of a frame 2 pixels wide, interleaved load by load with
\* configure calls and pushes.
NextRender ==
    \/ RenderLoadBufferSize(4)
    \/ RenderLoadWritePos
    \/ RenderLoadSampleRate
    \/ RenderReadSample
    \/ \E rate \in RenderRates : Initialize(rate)
    \/ \E frames \in RenderBlocks : Process(frames)

SpecRender == Init /\ [][NextRender]_vars

\* ================================================================== claims

\* The last step was an initialize call that returned true.
Accepted == last_op.op = "initialize" /\ last_op.ret

\* The last step was an initialize call that returned false.
Rejected == last_op.op = "initialize" /\ ~last_op.ret

\* C1: after k <= buffer_size pushes since the write position was zeroed
\* (by an accepted initialize, or by reset), write_pos is k mod buffer_size
\* (0 when nothing can be pushed into a buffer of size 0), and for k >= 1 the
\* slot before write_pos, cyclically, holds the sample pushed last.
C1_CursorFollowsPushes ==
    LET k == Len(pushed)
    IN  k <= buffer_size =>
          /\ write_pos = (IF buffer_size = 0 THEN 0 ELSE k % buffer_size)
          /\ k >= 1 =>
               BufferAt(buffer, (write_pos + buffer_size - 1) % buffer_size)
                   = pushed[k]

\* C1 witness: a buffer of size 2 filled by exactly 2 pushes of different
\* samples, the write position wrapped to 0.
C1_Witness ==
    /\ buffer_size = 2
    /\ Len(pushed) = 2
    /\ pushed[1] # pushed[2]
    /\ write_pos = 0
    /\ last_op.op = "process"

\* C2 (as claimed): after an accepted initialize, in every state reached by
\* initialize, reset and process, write_pos < buffer_size; stated here for
\* the positive sample rates alone.
C2_CursorBelowSize == sample_rate > 0 => write_pos < buffer_size

\* round(rate * 0.1) as a size: halves round away from zero, a negative
\* product gives 0.
RoundTenth(rate) == IF rate < 0 THEN 0 ELSE (rate + 5) \div 10

\* C3 (as claimed): an accepted initialize(rate) leaves
\* buffer_size = min(MAX_BUFFER_SIZE, round(rate * 0.1)) and write_pos = 0.
C3_SizeIsRounded ==
    Accepted =>
        /\ buffer_size = Min(MAX_BUFFER_SIZE, RoundTenth(last_op.rate))
        /\ write_pos = 0

\* C3 (amended): an accepted initialize(rate) leaves buffer_size equal to
\* rate * 0.1 truncated toward zero (the largest n with 10 * n <= rate; 0 for
\* a negative rate), which never exceeds MAX_BUFFER_SIZE, and write_pos = 0.
C3_SizeIsTruncated ==
    Accepted =>
        /\ buffer_size >= 0
        /\ buffer_size <= MAX_BUFFER_SIZE
        /\ IF last_op.rate < 0 THEN buffer_size = 0
           ELSE /\ 10 * buffer_size <= last_op.rate
                /\ last_op.rate < 10 * (buffer_size + 1)
        /\ write_pos = 0

\* C3 witness: initialize(15) was accepted and left a buffer size of 1, where
\* rounding would give 2.
C3_Witness ==
    /\ Accepted
    /\ last_op.rate = 15
    /\ buffer_size = 1
    /\ RoundTenth(last_op.rate) = 2

\* C4: an initialize call with a rate above MAX_SAMPLE_RATE returns false,
\* does not panic, and leaves buffer_size, write_pos and sample_rate as they
\* were.
C4_RejectionChangesNothing ==
    [][(last_op'.op = "initialize" /\ last_op'.rate > MAX_SAMPLE_RATE) =>
          /\ last_op'.ret = FALSE
          /\ panicked' = "none"
          /\ buffer_size' = buffer_size
          /\ write_pos' = write_pos
          /\ sample_rate' = sample_rate]_vars

\* C4 witness: a rejected initialize in a state that differs from the default
\* one (20 Hz, buffer size 2, one sample pushed).
C4_Witness ==
    /\ Rejected
    /\ sample_rate = 20
    /\ buffer_size = 2
    /\ write_pos = 1

\* C5 (as claimed): after an accepted initialize no push ends in a fatal
\* error; stated here for the positive sample rates alone.
C5_NoFatalError == sample_rate > 0 => panicked = "none"

\* C6: buffer_size never exceeds MAX_BUFFER_SIZE.
C6_SizeWithinCapacity == buffer_size <= MAX_BUFFER_SIZE

\* C6 witness: the buffer is used in full (192 kHz), and a later initialize
\* was rejected.
C6_Witness ==
    /\ Rejected
    /\ buffer_size = MAX_BUFFER_SIZE

\* sample_rate * timebase / 1000 as a sample count, before any clamping.
NaiveSamples == FAsUsize(FScale(timebase, sample_rate, 1000))

\* C7: the samples_to_display of a drawn frame is at most the buffer size.
C7_SamplesClamped ==
    frame.drawn => frame.samples_to_display <= buffer_size

\* C7 witness: a drawn frame where sample_rate * timebase / 1000 exceeds the
\* buffer size.
C7_Witness ==
    /\ frame.drawn
    /\ NaiveSamples > buffer_size
    /\ frame.samples_to_display = buffer_size

\* C8: a frame never panics; with buffer_size > 1 it yields one point per
\* whole pixel of the rect's width (n points with 2n <= w < 2n + 2, w in half
\* pixels), so none for a width below one pixel; with buffer_size <= 1 it
\* yields none.
C8_PointCount ==
    frame.ran =>
        /\ panicked = "none"
        /\ LET n == Len(frame.points)
           IN  IF buffer_size > 1
               THEN 2 * n <= frame.w /\ frame.w < 2 * n + 2
               ELSE n = 0

\* C8 witness: a frame on a buffer of size 2 and a rect narrower than one
\* pixel: no point, no panic.
C8_Witness ==
    /\ frame.ran
    /\ buffer_size = 2
    /\ frame.w = 1
    /\ frame.points = << >>
    /\ panicked = "none"

\* The buffer is full: at least buffer_size samples were pushed since the
\* write position was zeroed.
BufferFull == Len(pushed) >= buffer_size

\* The slots of the n most recently pushed samples.
MostRecentSlots(n) ==
    {(write_pos + buffer_size - j) % buffer_size : j \in 1..n}

\* C9 (as claimed): on a full buffer, with samples_to_display >= 1, every
\* slot a frame reads is one of the samples_to_display most recently pushed.
C9_ReadsMostRecent ==
    (frame.drawn /\ BufferFull /\ frame.samples_to_display >= 1) =>
        \A k \in DOMAIN frame.points :
            frame.points[k].buffer_index \in MostRecentSlots(frame.samples_to_display)

\* Every sample pushed since the write position was zeroed is v.
AllPushed(v) == \A k \in DOMAIN pushed : pushed[k] = v

\* C10: on a full buffer whose pushes all carried the same sample v, every
\* point of a frame has source sample v and all points have the same y.
\* At 44100 Hz the buffer size is 4410, and a 100 ms timebase then displays
\* 4410 samples.
C10_ConstantSignal ==
    /\ (frame.drawn /\ BufferFull /\ pushed # << >> /\ AllPushed(pushed[1])) =>
          /\ \A k \in DOMAIN frame.points : frame.points[k].sample = pushed[1]
          /\ \A k, l \in DOMAIN frame.points :
                 frame.points[k].y = frame.points[l].y
    /\ (Accepted /\ last_op.rate = 44100) => buffer_size = 4410
    /\ (frame.drawn /\ sample_rate = 44100 /\ buffer_size = 4410
           /\ timebase = Fin(100, 1)) => frame.samples_to_display = 4410

\* C10 witness: a frame of 3 points on a buffer of size 2 filled with 1.0.
C10_Witness ==
    /\ frame.drawn
    /\ buffer_size = 2
    /\ BufferFull
    /\ AllPushed(2)
    /\ Len(frame.points) = 3
    /\ \A k \in DOMAIN frame.points : frame.points[k].sample = 2


\* Sum of the channel values of one frame of one or two channels.
FrameSum(channel_samples) ==
    channel_samples[1]
        + (IF Len(channel_samples) = 2 THEN channel_samples[2] ELSE 0)

\* C19: a process call on a block of F frames of N channels performs exactly
\* F pushes, in frame order, and the value pushed for frame i is the mean
\* sum / N of the channel values of frame i alone: the call ends without a
\* fatal error and the last F pushed values are the F frame means.
C19_MeanOfEachFrame ==
    (last_op.op = "process" /\ sample_rate > 0) =>
        LET frames == last_op.frames
            F == Len(frames)
            k == Len(pushed)
        IN  /\ panicked = "none"
            /\ k >= F
            /\ \A i \in 1..F :
                   Len(frames[i]) * pushed[k - F + i] = FrameSum(frames[i])

\* The same property for blocks processed into a buffer of size >= 1.
C19_MeanWhenSizePositive ==
    (last_op.op = "process" /\ buffer_size > 0) =>
        LET frames == last_op.frames
            F == Len(frames)
            k == Len(pushed)
        IN  /\ panicked = "none"
            /\ k >= F
            /\ \A i \in 1..F :
                   Len(frames[i]) * pushed[k - F + i] = FrameSum(frames[i])

\* x is a number of the closed interval [lo, hi] (NaN is in no interval).
InRange(x, lo, hi) == x.kind = "fin" /\ ~FLess(x, lo) /\ ~FLess(hi, x)

\* C11: every value a drag publishes lies in the range of its axis, for
\* every pointer position and start value: the timebase in [1, 100] and the
\* vertical scale in [0.5, 10].
C11_PublishedInRange ==
    frame.published # << >> =>
        /\ InRange(frame.published[1], Fin(1, 1), Fin(100, 1))
        /\ InRange(frame.published[2], Fin(1, 2), Fin(10, 1))

\* The last frame was a move tick of a drag: it published new values.
Published == frame.published # << >>

\* Position of the pointer in the last editor frame.
PointerPos == last_op.pointer.hover_pos[1]

\* x < y for two f32 values; nothing is smaller or greater than NaN.
Smaller(x, y) ==
    /\ x.kind # "nan"
    /\ y.kind # "nan"
    /\ IF x.kind = "fin" /\ y.kind = "fin" THEN FLess(x, y)
       ELSE x.kind # y.kind /\ (x.kind = "ninf" \/ y.kind = "pinf")

\* C12: on a move tick of an active drag whose pointer is above the start
\* position (pointer y smaller than the captured y), the published vertical
\* scale is not smaller than the scale captured at the start of the gesture.
C12_UpNeverDecreasesScale ==
    (Published /\ PointerPos.y < drag_start[1].y) =>
        ~Smaller(frame.published[2], drag_start[1].scale)

\* An upward drag that published a scale greater than the captured one.
C12_Witness ==
    /\ Published
    /\ PointerPos.y < drag_start[1].y
    /\ Smaller(drag_start[1].scale, frame.published[2])

\* The pointer of the last editor frame is at the position captured at the
\* start of the gesture.
AtStartPosition ==
    PointerPos.x = drag_start[1].x /\ PointerPos.y = drag_start[1].y

\* C13: the values published on a move tick depend only on the snapshot
\* captured at the start of the gesture and on the pointer position, not on
\* earlier ticks or on the parameters' current values: a move tick whose
\* pointer is back at the start position publishes the captured start values.
C13_ReturnPublishesStart ==
    (Published /\ AtStartPosition) =>
        frame.published = <<drag_start[1].timebase, drag_start[1].scale>>

\* The same property for frames whose draw rect has a positive width and
\* height.
C13_ReturnWhenExtentPositive ==
    (Published /\ AtStartPosition /\ frame.w > 0 /\ frame.h > 0) =>
        frame.published = <<drag_start[1].timebase, drag_start[1].scale>>

\* The last step was an editor frame.
EditorFrame == last_op.op = "editor"

\* The pointer of the last editor frame was inside the draw rect.
PointerInside ==
    /\ last_op.pointer.hover_pos # << >>
    /\ RectContains(frame.w, frame.h, PointerPos)

\* The draw rect of the last editor frame has a positive width and height.
PositiveExtent == frame.w > 0 /\ frame.h > 0

\* C14: a captured snapshot exists only between the start and the end of a
\* gesture: after a frame in which the primary button is not down, no
\* snapshot is stored under the gesture key.
C14_NoSnapshotAfterRelease ==
    (EditorFrame /\ ~last_op.pointer.primary_down) => drag_start = << >>

\* C15: a parameter change is published only during a gesture that began
\* with a press of the primary button while the pointer was inside the
\* region: a frame that publishes (here: over a rect of positive extent)
\* belongs to a hold of the button that began inside the draw rect.
C15_PublishOnlyAfterPressInside ==
    (Published /\ PositiveExtent) => last_op.pressed_inside

\* C16: leaving the region ends the gesture: after a frame of an active drag
\* with the pointer outside the draw rect, a frame without a new press
\* (here: over rects of positive extent) publishes no parameter change.
C16_LeaveEndsGesture ==
    [][(EditorFrame /\ last_op.pressed_inside /\ ~PointerInside
            /\ PositiveExtent /\ PositiveExtent'
            /\ ~last_op'.pointer.primary_pressed)
        => frame'.published = << >>]_vars

\* C17: a release is honoured in every frame, also right after the press: a
\* frame in which the primary button is not down publishes no parameter
\* change and leaves both parameters as they were.
C17_ReleaseHonoured ==
    [][(last_op'.op = "editor" /\ ~last_op'.pointer.primary_down)
        => /\ frame'.published = << >>
           /\ timebase' = timebase
           /\ vertical_scale' = vertical_scale]_vars

\* A frame with the button up, the pointer inside the rect at the position
\* of the press, a snapshot stored and the parameters still at the captured
\* values: a gesture released without any movement.
C17_Witness ==
    /\ EditorFrame
    /\ ~last_op.pointer.primary_down
    /\ drag_start # << >>
    /\ PointerInside
    /\ AtStartPosition
    /\ ~Published
    /\ timebase = drag_start[1].timebase
    /\ vertical_scale = drag_start[1].scale

\* C18: a move tick (button held, not just pressed, pointer inside the rect)
\* with no start snapshot stored publishes no parameter change and leaves
\* the parameters and the drag state unchanged.
C18_MoveWithoutSnapshot ==
    [][(/\ drag_start = << >>
        /\ last_op'.op = "editor"
        /\ last_op'.pointer.primary_down
        /\ ~last_op'.pointer.primary_pressed
        /\ last_op'.pointer.hover_pos # << >>
        /\ RectContains(frame'.w, frame'.h, last_op'.pointer.hover_pos[1]))
        => /\ frame'.published = << >>
           /\ timebase' = timebase
           /\ vertical_scale' = vertical_scale
           /\ drag_start' = << >>]_vars

\* A move tick inside the rect with no snapshot stored (the button went down
\* outside the rect and no gesture has begun inside it so far).
C18_Witness ==
    /\ EditorFrame
    /\ last_op.pointer.primary_down
    /\ ~last_op.pointer.primary_pressed
    /\ PointerInside
    /\ drag_start = << >>
    /\ ~Published

\* C20: in every interleaving of a render pass with pushes and configure
\* calls, each slot index the render pass reads is smaller than the
\* buffer_size in effect at the moment of the read.
C20_ReadsBelowCurrentSize ==
    render.read # << >> =>
        render.read[1].buffer_index < render.read[1].buffer_size

\* ------------------------------------------------------------------------
\* The drag properties for DragControllable::handle_drag_control
\* (drag_control.rs), checked under SpecControl.

\* The last step was a frame of handle_drag_control.
ControlFrame == last_op.op = "handle_drag_control"

\* Every pair handed to on_drag lies in [0, 1] x [0, 1] (the generic
\* controller's part of C11).
Control_NormalizedInRange ==
    (ControlFrame /\ last_op.on_drag # << >>) =>
        /\ InRange(last_op.on_drag[1], Fin(0, 1), Fin(1, 1))
        /\ InRange(last_op.on_drag[2], Fin(0, 1), Fin(1, 1))

\* After a frame with the button up no snapshot is stored under
\* "drag_state" (C14 for the generic controller).
Control_NoSnapshotAfterRelease ==
    (ControlFrame /\ ~last_op.pointer.primary_down) => drag_state = << >>

\* A frame with the button up calls on_drag not at all (C17 for the generic
\* controller).
Control_ReleaseHonoured ==
    (ControlFrame /\ ~last_op.pointer.primary_down) => last_op.on_drag = << >>

\* A move tick inside the rect with no snapshot stored calls on_drag not at
\* all and stores no snapshot (C18 for the generic controller).
Control_MoveWithoutSnapshot ==
    [][(/\ drag_state = << >>
        /\ last_op'.op = "handle_drag_control"
        /\ last_op'.pointer.primary_down
        /\ ~last_op'.pointer.primary_pressed)
        => (last_op'.on_drag = << >> /\ drag_state' = << >>)]_vars

\* floor(i * samples_to_display / display_width) of the last frame: the one
\* natural number q with q * display_width <= i * samples_to_display
\* < (q + 1) * display_width.
ColumnOffset(i) ==
    CHOOSE q \in 0..(i * frame.samples_to_display) :
        /\ q * frame.display_width <= i * frame.samples_to_display
        /\ i * frame.samples_to_display < (q + 1) * frame.display_width

\* C21: in a drawn frame, column i of 0 .. display_width - 1 reads the slot
\* (write_pos + floor(i * samples_to_display / display_width)) mod
\* buffer_size; the offset is non-decreasing in i and, when
\* samples_to_display > 0, smaller than samples_to_display; so two columns
\* share a sample when samples_to_display < display_width, and some of the
\* samples_to_display offsets are skipped when it is larger.
C21_SourceIndex ==
    frame.drawn =>
        LET columns == 0..(frame.display_width - 1)
            offsets == {ColumnOffset(i) : i \in columns}
        IN  /\ Len(frame.points) = frame.display_width
            /\ \A i \in columns :
                 /\ frame.points[i + 1].buffer_index
                        = (write_pos + ColumnOffset(i)) % buffer_size
                 /\ frame.samples_to_display > 0
                        => ColumnOffset(i) < frame.samples_to_display
                 /\ \A j \in columns :
                        i <= j => ColumnOffset(i) <= ColumnOffset(j)
            /\ (frame.display_width >= 2
                    /\ frame.samples_to_display < frame.display_width)
                 => \E i, j \in columns :
                        i # j /\ ColumnOffset(i) = ColumnOffset(j)
            /\ (frame.display_width >= 1
                    /\ frame.samples_to_display > frame.display_width)
                 => \E o \in 0..(frame.samples_to_display - 1) : o \notin offsets

\* A drawn frame of 3 columns over 2 samples whose reads wrap around the end
\* of the buffer: two columns repeat a sample, and a later column reads a
\* slot before write_pos.
C21_Witness ==
    /\ frame.drawn
    /\ frame.display_width = 3
    /\ frame.samples_to_display = 2
    /\ write_pos > 0
    /\ frame.points[1].buffer_index = frame.points[2].buffer_index
    /\ frame.points[3].buffer_index < write_pos

\* A drawn frame with more samples than columns: an offset is skipped.
C21_SkipReached ==
    /\ frame.drawn
    /\ frame.display_width = 2
    /\ frame.samples_to_display = 3

\* clamp(start + (movement / extent) * (kn / kd), lo, hi) of one axis, from
\* the quantities of that axis alone: NaN for a NaN start or for 0 / 0, the
\* end of the range on the side of the movement for a zero extent.
AxisValue(start, movement, extent, kn, kd, lo, hi) ==
    IF start.kind = "nan" THEN NaN
    ELSE IF extent = 0
         THEN (IF movement = 0 THEN NaN ELSE IF movement > 0 THEN hi ELSE lo)
    ELSE LET num == start.n * extent * kd + movement * kn * start.d
             den == start.d * extent * kd
         IN  IF num * lo.d < lo.n * den THEN lo
             ELSE IF num * hi.d > hi.n * den THEN hi
             ELSE Fin(num, den)

\* C22: the two drag axes do not interfere.  On every move tick the
\* published timebase is determined by the horizontal quantities alone
\* (captured x and timebase, pointer x, rect width), whatever the pointer's
\* y and the captured scale are, and the published vertical scale by the
\* vertical quantities alone (captured y and scale, pointer y, rect height).
C22_AxesIndependent ==
    Published =>
        /\ frame.published[1] =
               AxisValue(drag_start[1].timebase, PointerPos.x - drag_start[1].x,
                         frame.w, 198, 1, Fin(1, 1), Fin(100, 1))
        /\ frame.published[2] =
               AxisValue(drag_start[1].scale, drag_start[1].y - PointerPos.y,
                         frame.h, 19, 2, Fin(1, 2), Fin(10, 1))

\* A move tick whose pointer left the start position along both axes: the
\* drag went left and up, and published the lowest timebase together with
\* the highest scale.
C22_Witness ==
    /\ Published
    /\ PositiveExtent
    /\ PointerPos.x < drag_start[1].x
    /\ PointerPos.y < drag_start[1].y
    /\ drag_start[1].timebase = Fin(10, 1)
    /\ drag_start[1].scale = Fin(1, 1)
    /\ frame.published = <<Fin(1, 1), Fin(10, 1)>>

\* Every slot other than those of `touched` reads the same before and after
\* the step (a slot never stored to reads 0.0).
SlotsKeptExcept(touched) ==
    \A i \in ((DOMAIN buffer) \cup (DOMAIN buffer')) \ touched :
        BufferAt(buffer', i) = BufferAt(buffer, i)

\* The slots at the write positions of F successive pushes that begin at
\* write_pos (the slot at write_pos alone while buffer_size is 0).
PushedSlots(F) ==
    IF buffer_size = 0 THEN {write_pos}
    ELSE {(write_pos + k) % buffer_size : k \in 0..(F - 1)}

\* C23: frame conditions of the history buffer.  A process call of F frames
\* changes only the slots at the F write positions from the old write_pos on
\* (for one push: the slot at the old write_pos) and write_pos, not
\* buffer_size or sample_rate; initialize and reset change no slot, and
\* reset changes neither buffer_size nor sample_rate; an editor frame (a
\* render pass) changes no slot, nor write_pos, buffer_size or sample_rate.
C23_FrameConditions ==
    [][/\ last_op'.op = "process" =>
             /\ SlotsKeptExcept(PushedSlots(Len(last_op'.frames)))
             /\ buffer_size' = buffer_size
             /\ sample_rate' = sample_rate
       /\ last_op'.op \in {"initialize", "reset"} => SlotsKeptExcept({})
       /\ last_op'.op = "reset" =>
             /\ buffer_size' = buffer_size
             /\ sample_rate' = sample_rate
       /\ last_op'.op \in {"editor", "render"} =>
             /\ SlotsKeptExcept({})
             /\ write_pos' = write_pos
             /\ buffer_size' = buffer_size
             /\ sample_rate' = sample_rate]_vars

\* After a process call of one frame into a buffer of two or more slots:
\* the push advanced write_pos and a slot other than the one pushed to
\* still holds the nonzero sample stored there before.
C23_Witness ==
    /\ last_op.op = "process"
    /\ Len(last_op.frames) = 1
    /\ panicked = "none"
    /\ buffer_size >= 2
    /\ write_pos # 0
    /\ \E i \in DOMAIN buffer :
           i # (write_pos + buffer_size - 1) % buffer_size /\ buffer[i] # 0
====
